---- MODULE Spec2Model ----
(***************************************************************************)
(* Compensation engine of src/ibo.py: the sponsorship forest of AmwayIBO   *)
(* objects, the recursive group-volume aggregation, the tiered bonus       *)
(* lookup, the pairwise DifferentialBonus and the earnings queries.        *)
(*                                                                         *)
(* Number representation (the source uses Python floats):                  *)
(*   - a PV value is held in thousandths of a PV (Milli per PV), so        *)
(*     299.99 is 299990 and 299.995 is 299995;                             *)
(*   - a percentage is held in hundredths (float('0.03') is 3, 0.1 is 10,  *)
(*     0.6 is 60);                                                         *)
(*   - BV_TO_PV_RATIO 3.36 = 84/25 is held in 25ths (84);                  *)
(*   - an amount (percentage * PV * ratio) is therefore held in units of   *)
(*     1 / AmountUnit; products are exact, float rounding is not modelled. *)
(* An AmwayIBO object is identified by its creation index 1, 2, ...;       *)
(* None is 0.                                                              *)
(* registration_month is stored by the constructor and read by no          *)
(* calculation; it is left out. create_random_downline is a sequence of    *)
(* constructions and get_tree_structure, __repr__ and                      *)
(* print_detailed_earnings only format the results of the queries.         *)
(***************************************************************************)
EXTENDS Integers, Sequences, FiniteSets

VARIABLES sponsor, frontline, personal_pv, vcs_pv, level, last

vars == <<sponsor, frontline, personal_pv, vcs_pv, level, last>>
tree == <<sponsor, frontline, personal_pv, vcs_pv, level>>

\* Largest number of AmwayIBO objects constructed under Spec.
MaxIBO == 5
\* Largest number of AmwayIBO objects in an initial forest of SpecAny.
MaxAny == 3
\* Largest multiple of 150 PV the schedule is looked up at in C10.
MaxMultiple == 60

None == 0
Milli == 1000

\* self._personal_pv = 150, self._vcs_pv = 90, AmwayIBO.IBO_LEVELS['IBO']
StartPersonalPV == 150
StartVcsPV == 90
IBO_LEVEL_IBO == 0

\* BV_TO_PV_RATIO = 3.36, in 25ths
BV_TO_PV_RATIO == 84
\* the 0.6 of the qualification gate, the 0.1 of CSI and of retail profit,
\* in hundredths
QualifyingShare == 60
CsiBase == 10
RetailShare == 10
\* min(csi_bonus, 75.0), in currency units
CsiCap == 75
\* amount units per currency unit: 100 (percentage) * Milli (PV) * 25 (ratio)
AmountUnit == 100 * Milli * 25

IBOs == 1..Len(sponsor)

Max(a, b) == IF a >= b THEN a ELSE b
Min(a, b) == IF a <= b THEN a ELSE b

\* Mutant of BONUS_SCHEDULE: the 9% tier starts at 601, which leaves 600
\* in no tier.
BONUS_SCHEDULE_Gap ==
  << [percent |-> 3,  min |-> 100 * Milli,  max |-> 299990,  unbounded |-> FALSE],
     [percent |-> 6,  min |-> 300 * Milli,  max |-> 599990,  unbounded |-> FALSE],
     [percent |-> 9,  min |-> 601 * Milli,  max |-> 999990,  unbounded |-> FALSE],
     [percent |-> 12, min |-> 1000 * Milli, max |-> 1499990, unbounded |-> FALSE],
     [percent |-> 15, min |-> 1500 * Milli, max |-> 2499990, unbounded |-> FALSE],
     [percent |-> 18, min |-> 2500 * Milli, max |-> 3999990, unbounded |-> FALSE],
     [percent |-> 21, min |-> 4000 * Milli, max |-> 5999990, unbounded |-> FALSE],
     [percent |-> 23, min |-> 6000 * Milli, max |-> 7499990, unbounded |-> FALSE],
     [percent |-> 25, min |-> 7500 * Milli, max |-> 0,       unbounded |-> TRUE] >>

\* AmwayIBO.BONUS_SCHEDULE, in the dict's insertion order. The last tier's
\* max is float('inf'): unbounded.
BONUS_SCHEDULE ==
  << [percent |-> 3,  min |-> 100 * Milli,  max |-> 299990,  unbounded |-> FALSE],
     [percent |-> 6,  min |-> 300 * Milli,  max |-> 599990,  unbounded |-> FALSE],
     [percent |-> 9,  min |-> 600 * Milli,  max |-> 999990,  unbounded |-> FALSE],
     [percent |-> 12, min |-> 1000 * Milli, max |-> 1499990, unbounded |-> FALSE],
     [percent |-> 15, min |-> 1500 * Milli, max |-> 2499990, unbounded |-> FALSE],
     [percent |-> 18, min |-> 2500 * Milli, max |-> 3999990, unbounded |-> FALSE],
     [percent |-> 21, min |-> 4000 * Milli, max |-> 5999990, unbounded |-> FALSE],
     [percent |-> 23, min |-> 6000 * Milli, max |-> 7499990, unbounded |-> FALSE],
     [percent |-> 25, min |-> 7500 * Milli, max |-> 0,       unbounded |-> TRUE] >>

\* pv_range["min"] <= total_pv <= pv_range["max"]
InRange(total_pv, pv_range) ==
  /\ pv_range.min <= total_pv
  /\ (pv_range.unbounded \/ total_pv <= pv_range.max)

\* Mutant of add_frontline: the new entry goes to the front of the list.
add_frontline_Front(fl, self, ibo) == [fl EXCEPT ![self] = <<ibo>> \o @]

\* add_frontline: self.frontline.append(ibo)
add_frontline(fl, self, ibo) == [fl EXCEPT ![self] = Append(@, ibo)]

\* The fields of every object, as one record.
Tree ==
  [sponsor |-> sponsor, frontline |-> frontline, personal_pv |-> personal_pv,
   vcs_pv |-> vcs_pv, level |-> level]

EmptyTree ==
  [sponsor |-> <<>>, frontline |-> <<>>, personal_pv |-> <<>>,
   vcs_pv |-> <<>>, level |-> <<>>]

\* Mutant of NewIBO: the sponsor is recorded, sponsor.add_frontline(self) is
\* not called.
NewIBO_NoAttach(t, s) ==
  [sponsor     |-> Append(t.sponsor, s),
   frontline   |-> Append(t.frontline, <<>>),
   personal_pv |-> Append(t.personal_pv, StartPersonalPV * Milli),
   vcs_pv      |-> Append(t.vcs_pv, StartVcsPV * Milli),
   level       |-> Append(t.level, IBO_LEVEL_IBO)]

\* AmwayIBO.__init__(sponsor = s) on the objects of t: the new object's
\* fields, then sponsor.add_frontline(self) when a sponsor is given.
NewIBO(t, s) ==
  LET self == Len(t.sponsor) + 1
      made == [sponsor     |-> Append(t.sponsor, s),
               frontline   |-> Append(t.frontline, <<>>),
               personal_pv |-> Append(t.personal_pv, StartPersonalPV * Milli),
               vcs_pv      |-> Append(t.vcs_pv, StartVcsPV * Milli),
               level       |-> Append(t.level, IBO_LEVEL_IBO)]
  IN  IF s # None
        THEN [made EXCEPT !.frontline = add_frontline(made.frontline, s, self)]
        ELSE made

RECURSIVE calculate_group_pv(_)
RECURSIVE SumGroupPV(_)

\* sum(frontline.calculate_group_pv() for frontline in self.frontline)
SumGroupPV(children) ==
  IF children = <<>> THEN 0
  ELSE calculate_group_pv(Head(children)) + SumGroupPV(Tail(children))

\* Mutant of calculate_group_pv: the last entry of the frontline is left out.
calculate_group_pv_SkipLast(p) ==
  personal_pv[p] + SumGroupPV(SubSeq(frontline[p], 1, Len(frontline[p]) - 1))

\* calculate_group_pv
calculate_group_pv(p) == personal_pv[p] + SumGroupPV(frontline[p])

RECURSIVE FirstTier(_, _)
\* the for loop of calculate_bonus_percentage from tier i on: the percentage
\* of the first tier whose range holds total_pv, 0.0 when the loop ends
FirstTier(total_pv, i) ==
  IF i > Len(BONUS_SCHEDULE) THEN 0
  ELSE IF InRange(total_pv, BONUS_SCHEDULE[i]) THEN BONUS_SCHEDULE[i].percent
  ELSE FirstTier(total_pv, i + 1)

calculate_bonus_percentage(p) == FirstTier(calculate_group_pv(p), 1)

calculate_group_bv(p) == calculate_group_pv(p) * BV_TO_PV_RATIO

calculate_personal_bv(p) == personal_pv[p] * BV_TO_PV_RATIO

\* Mutant of calculate_multiplier: the difference without the max(0.0, ...).
calculate_multiplier_NoFloor(ibo1, ibo2) ==
  calculate_bonus_percentage(ibo1) - calculate_bonus_percentage(ibo2)

\* DifferentialBonus(ibo1, ibo2)
calculate_multiplier(ibo1, ibo2) ==
  Max(0, calculate_bonus_percentage(ibo1) - calculate_bonus_percentage(ibo2))

calculate_amount(ibo1, ibo2) ==
  calculate_multiplier(ibo1, ibo2) * calculate_group_pv(ibo2) * BV_TO_PV_RATIO

RECURSIVE FrontlinesOf(_)
FrontlinesOf(children) ==
  IF children = <<>> THEN <<>>
  ELSE frontline[Head(children)] \o FrontlinesOf(Tail(children))

\* Mutant of differential_bonus_list: the children's own frontlines are
\* paired with the participant too.
differential_bonus_list_Deep(p) ==
  LET legs == frontline[p] \o FrontlinesOf(frontline[p])
  IN  [i \in 1..Len(legs) |-> <<p, legs[i]>>]

\* [DifferentialBonus(self, ibo) for ibo in self.frontline], as pairs
differential_bonus_list(p) ==
  [i \in 1..Len(frontline[p]) |-> <<p, frontline[p][i]>>]

RECURSIVE SumAmounts(_)
SumAmounts(list) ==
  IF list = <<>> THEN 0
  ELSE calculate_amount(Head(list)[1], Head(list)[2]) + SumAmounts(Tail(list))

calculate_differential_bonus(p) == SumAmounts(differential_bonus_list(p))

calculate_csi_percentage(p) == Max(0, CsiBase - calculate_bonus_percentage(p))

calculate_csi_bonus(p) ==
  Min(calculate_csi_percentage(p) * vcs_pv[p] * BV_TO_PV_RATIO, CsiCap * AmountUnit)

calculate_retail_profit(p) == RetailShare * vcs_pv[p] * BV_TO_PV_RATIO

\* The outcome of a call: a returned value, or the ValueError of the
\* qualification gate.
Returned(v) == [out |-> "ok", val |-> v]
Raised == [out |-> "ValueError", val |-> 0]

\* Mutant of BelowGate: <= in place of <.
BelowGate_Inclusive(p) == 100 * vcs_pv[p] <= QualifyingShare * personal_pv[p]

\* self._vcs_pv < 0.6 * self._personal_pv
BelowGate(p) == 100 * vcs_pv[p] < QualifyingShare * personal_pv[p]

calculate_personal_bonus(p) ==
  IF BelowGate(p) THEN Raised
  ELSE Returned(calculate_bonus_percentage(p) * calculate_personal_bv(p))

\* the first operand raises before the others are evaluated
calculate_total_earnings(p) ==
  LET personal == calculate_personal_bonus(p)
  IN  IF personal.out # "ok" THEN personal
      ELSE Returned(personal.val + calculate_differential_bonus(p)
                    + calculate_csi_bonus(p) + calculate_retail_profit(p))

Call(op, p, r) == [op |-> op, who |-> p, out |-> r.out, val |-> r.val]

----------------------------------------------------------------------------
Init ==
  /\ sponsor = <<>>
  /\ frontline = <<>>
  /\ personal_pv = <<>>
  /\ vcs_pv = <<>>
  /\ level = <<>>
  /\ last = Call("none", None, Returned(0))

\* AmwayIBO(sponsor = s)
AmwayIBO_init(s) ==
  /\ Len(sponsor) < MaxIBO
  /\ LET t == NewIBO(Tree, s)
     IN  /\ sponsor' = t.sponsor
         /\ frontline' = t.frontline
         /\ personal_pv' = t.personal_pv
         /\ vcs_pv' = t.vcs_pv
         /\ level' = t.level
  /\ last' = Call("__init__", Len(sponsor) + 1, Returned(0))

\* Mutant of QueryGroupPV: the result is kept in _personal_pv.
QueryGroupPV_Memo ==
  \E p \in IBOs :
    /\ last' = Call("calculate_group_pv", p, Returned(calculate_group_pv(p)))
    /\ personal_pv' = [personal_pv EXCEPT ![p] = calculate_group_pv(p)]
    /\ UNCHANGED <<sponsor, frontline, vcs_pv, level>>

QueryGroupPV ==
  \E p \in IBOs :
    /\ last' = Call("calculate_group_pv", p, Returned(calculate_group_pv(p)))
    /\ UNCHANGED tree

QueryGroupBV ==
  \E p \in IBOs :
    /\ last' = Call("calculate_group_bv", p, Returned(calculate_group_bv(p)))
    /\ UNCHANGED tree

QueryPersonalBV ==
  \E p \in IBOs :
    /\ last' = Call("calculate_personal_bv", p, Returned(calculate_personal_bv(p)))
    /\ UNCHANGED tree

QueryBonusPercentage ==
  \E p \in IBOs :
    /\ last' = Call("calculate_bonus_percentage", p,
                    Returned(calculate_bonus_percentage(p)))
    /\ UNCHANGED tree

QueryPersonalBonus ==
  \E p \in IBOs :
    /\ last' = Call("calculate_personal_bonus", p, calculate_personal_bonus(p))
    /\ UNCHANGED tree

QueryDifferentialBonus ==
  \E p \in IBOs :
    /\ last' = Call("calculate_differential_bonus", p,
                    Returned(calculate_differential_bonus(p)))
    /\ UNCHANGED tree

QueryCsiPercentage ==
  \E p \in IBOs :
    /\ last' = Call("calculate_csi_percentage", p,
                    Returned(calculate_csi_percentage(p)))
    /\ UNCHANGED tree

QueryCsiBonus ==
  \E p \in IBOs :
    /\ last' = Call("calculate_csi_bonus", p, Returned(calculate_csi_bonus(p)))
    /\ UNCHANGED tree

QueryRetailProfit ==
  \E p \in IBOs :
    /\ last' = Call("calculate_retail_profit", p,
                    Returned(calculate_retail_profit(p)))
    /\ UNCHANGED tree

QueryTotalEarnings ==
  \E p \in IBOs :
    /\ last' = Call("calculate_total_earnings", p, calculate_total_earnings(p))
    /\ UNCHANGED tree

Query ==
  \/ QueryGroupPV
  \/ QueryGroupBV
  \/ QueryPersonalBV
  \/ QueryBonusPercentage
  \/ QueryPersonalBonus
  \/ QueryDifferentialBonus
  \/ QueryCsiPercentage
  \/ QueryCsiBonus
  \/ QueryRetailProfit
  \/ QueryTotalEarnings

Next ==
  \/ \E s \in IBOs \cup {None} : AmwayIBO_init(s)
  \/ Query

Spec == Init /\ [][Next]_vars

----------------------------------------------------------------------------
\* Queries over forests whose volume fields hold other values than the
\* constructor's: the forests are the ones constructions build, and the
\* _personal_pv and _vcs_pv of each object are one of Volumes (thousandths
\* of a PV): the constructor's 150 and 90, 150 with 0.59 * 150 = 88.5,
\* 149.995 with 90, and 0 with 90.
Volumes ==
  { [pv |-> StartPersonalPV * Milli, vcs |-> StartVcsPV * Milli],
    [pv |-> StartPersonalPV * Milli, vcs |-> 88500],
    [pv |-> 149995,                  vcs |-> StartVcsPV * Milli],
    [pv |-> 0,                       vcs |-> StartVcsPV * Milli] }

\* The sponsor arguments of n constructions: each an earlier object or None.
SponsorChoices(n) == {s \in [1..n -> 0..n] : \A i \in 1..n : s[i] < i}

RECURSIVE Build(_)
\* the objects after AmwayIBO(sponsor = sps[1]), ..., AmwayIBO(sponsor = sps[n])
Build(sps) ==
  IF Len(sps) = 0 THEN EmptyTree
  ELSE NewIBO(Build(SubSeq(sps, 1, Len(sps) - 1)), sps[Len(sps)])

InitAny ==
  \E n \in 1..MaxAny :
    \E sps \in SponsorChoices(n) :
      \E vol \in [1..n -> Volumes] :
        LET t == Build(sps)
        IN  /\ sponsor = t.sponsor
            /\ frontline = t.frontline
            /\ personal_pv = [i \in 1..n |-> vol[i].pv]
            /\ vcs_pv = [i \in 1..n |-> vol[i].vcs]
            /\ level = t.level
            /\ last = Call("none", None, Returned(0))

SpecAny == InitAny /\ [][Query]_vars

----------------------------------------------------------------------------
\* Helpers of the properties.

RECURSIVE Up(_)
\* p and the objects reached from p by sponsor links
Up(p) == IF p = None THEN {} ELSE {p} \cup Up(sponsor[p])

Children(p) == {c \in IBOs : sponsor[c] = p}
Subtree(p) == {q \in IBOs : p \in Up(q)}

RECURSIVE FrontlineGroupPV(_, _)
\* the group PV of the first k entries of p's frontline, added up
FrontlineGroupPV(p, k) ==
  IF k = 0 THEN 0
  ELSE FrontlineGroupPV(p, k - 1) + calculate_group_pv(frontline[p][k])

RECURSIVE PersonalPVOf(_)
PersonalPVOf(S) ==
  IF S = {} THEN 0
  ELSE LET q == CHOOSE x \in S : TRUE
       IN  personal_pv[q] + PersonalPVOf(S \ {q})

RECURSIVE DifferentialOver(_, _)
\* the sum over the objects c of S of max(0, pct(p) - pct(c)) * group_pv(c) * 3.36
DifferentialOver(p, S) ==
  IF S = {} THEN 0
  ELSE LET c == CHOOSE x \in S : TRUE
           gap == calculate_bonus_percentage(p) - calculate_bonus_percentage(c)
       IN  (IF gap > 0 THEN gap ELSE 0) * calculate_group_pv(c) * 84
             + DifferentialOver(p, S \ {c})

Occurrences(seq, x) == Cardinality({i \in 1..Len(seq) : seq[i] = x})

RECURSIVE ReachesRoot(_, _)
\* following sponsor links from p ends at an object without sponsor and
\* meets no object of seen, nor any object twice
ReachesRoot(p, seen) ==
  IF p \in seen THEN FALSE
  ELSE IF sponsor[p] = None THEN TRUE
  ELSE ReachesRoot(sponsor[p], seen \cup {p})

QueryOps ==
  {"calculate_group_pv", "calculate_group_bv", "calculate_personal_bv",
   "calculate_bonus_percentage", "calculate_personal_bonus",
   "calculate_differential_bonus", "calculate_csi_percentage",
   "calculate_csi_bonus", "calculate_retail_profit", "calculate_total_earnings"}

----------------------------------------------------------------------------
\* C1: in every forest built by constructions, the group PV of each
\* participant is its personal PV plus the group PV of each entry of its
\* frontline (so it is the personal PV of its whole subtree), it is at least
\* its personal PV, which is at least 0, and a calculate_group_pv() call
\* returns that value.
C1_GroupPVAdditive ==
  /\ \A p \in IBOs :
       /\ calculate_group_pv(p)
            = personal_pv[p] + FrontlineGroupPV(p, Len(frontline[p]))
       /\ calculate_group_pv(p) = PersonalPVOf(Subtree(p))
       /\ calculate_group_pv(p) >= personal_pv[p]
       /\ personal_pv[p] >= 0
  /\ last.op = "calculate_group_pv" =>
       /\ last.out = "ok"
       /\ last.val = personal_pv[last.who]
                       + FrontlineGroupPV(last.who, Len(frontline[last.who]))

\* a calculate_group_pv() call has returned for a participant with a
\* grandchild
C1_Witness ==
  /\ last.op = "calculate_group_pv"
  /\ \E c \in Children(last.who) : Children(c) # {}
  /\ last.val = 3 * 150000

\* C2 (as stated): the bonus percentage calculate_bonus_percentage()
\* returns is monotone in the group PV, at thousandths of a PV: no smaller
\* group PV gets a larger percentage, no larger one a smaller percentage,
\* and no percentage exceeds 25.
C2_TierMonotone ==
  last.op = "calculate_bonus_percentage" =>
    /\ last.val <= 25
    /\ \A q \in IBOs :
         /\ calculate_group_pv(q) < calculate_group_pv(last.who) =>
              calculate_bonus_percentage(q) <= last.val
         /\ calculate_group_pv(last.who) < calculate_group_pv(q) =>
              last.val <= calculate_bonus_percentage(q)

\* C3 (as stated): every group PV of at least 100 lies in exactly one tier's
\* [min, max], so calculate_bonus_percentage() returns 0 exactly below 100.
C3_ScheduleCoversFrom100 ==
  last.op = "calculate_bonus_percentage" =>
    LET v == calculate_group_pv(last.who)
        holding == {i \in 1..Len(BONUS_SCHEDULE) : InRange(v, BONUS_SCHEDULE[i])}
    IN  /\ v >= 100000 => Cardinality(holding) = 1
        /\ last.val = 0 <=> v < 100000

\* C4: calculate_personal_bonus() raises exactly when vcs_pv < 0.6 *
\* personal_pv, whatever the group volume, and calculate_total_earnings()
\* raises in exactly the same cases and otherwise returns the whole sum.
C4_QualificationGate ==
  /\ \A p \in IBOs :
       LET below == 10 * vcs_pv[p] < 6 * personal_pv[p]
           bonus == calculate_personal_bonus(p)
           total == calculate_total_earnings(p)
       IN  /\ bonus.out = "ValueError" <=> below
           /\ total.out = "ValueError" <=> below
           /\ bonus.out \in {"ok", "ValueError"}
           /\ total.out \in {"ok", "ValueError"}
           /\ ~below => total.val = bonus.val + calculate_differential_bonus(p)
                                      + calculate_csi_bonus(p)
                                      + calculate_retail_profit(p)
  /\ last.op \in {"calculate_personal_bonus", "calculate_total_earnings"} =>
       (last.out = "ValueError"
          <=> 10 * vcs_pv[last.who] < 6 * personal_pv[last.who])

\* calculate_total_earnings() has raised at vcs_pv = 0.59 * personal_pv for a
\* participant of another group volume than one that qualifies at
\* vcs_pv = 0.60 * personal_pv
C4_Witness ==
  /\ last.op = "calculate_total_earnings"
  /\ last.out = "ValueError"
  /\ personal_pv[last.who] = 150000 /\ vcs_pv[last.who] = 88500
  /\ \E q \in IBOs :
       /\ personal_pv[q] = 150000 /\ vcs_pv[q] = 90000
       /\ calculate_personal_bonus(q).out = "ok"
       /\ calculate_group_pv(q) # calculate_group_pv(last.who)

\* C5: for every participant U and every entry C of U's frontline the
\* differential amount is >= 0, and it is 0 whenever C's bonus percentage is
\* >= U's.
C5_DifferentialNonNegative ==
  \A u \in IBOs :
    \A i \in 1..Len(frontline[u]) :
      LET c == frontline[u][i]
      IN  /\ calculate_amount(u, c) >= 0
          /\ calculate_bonus_percentage(c) >= calculate_bonus_percentage(u)
               => calculate_amount(u, c) = 0

\* calculate_differential_bonus() has returned 0 for an upline whose child
\* has a higher percentage than the upline (the upline's group PV 299.995
\* is in no tier)
C5_Witness ==
  /\ last.op = "calculate_differential_bonus"
  /\ last.val = 0
  /\ \E c \in Children(last.who) :
       calculate_bonus_percentage(c) > calculate_bonus_percentage(last.who)

\* C6: calculate_differential_bonus() of P is the sum over P's direct
\* children C of max(0, pct(P) - pct(C)) * group_pv(C) * 3.36, with no term
\* for a deeper descendant, and 0 without children.
C6_DifferentialDirectOnly ==
  /\ \A p \in IBOs :
       /\ calculate_differential_bonus(p) = DifferentialOver(p, Children(p))
       /\ frontline[p] = <<>> => calculate_differential_bonus(p) = 0
  /\ last.op = "calculate_differential_bonus" =>
       /\ last.out = "ok"
       /\ last.val = DifferentialOver(last.who, Children(last.who))

\* calculate_differential_bonus() has returned a positive amount for a
\* participant whose child has a child of a lower percentage than the
\* participant's
C6_Witness ==
  /\ last.op = "calculate_differential_bonus"
  /\ last.val > 0
  /\ \E c \in Children(last.who) :
       \E g \in Children(c) :
         calculate_bonus_percentage(g) < calculate_bonus_percentage(last.who)

\* C7: a query, whether it returns or raises, leaves sponsor, frontline,
\* personal_pv, vcs_pv and level of every participant unchanged, and the
\* same query repeated gives the same result.
C7_QueriesArePure ==
  [][ last'.op \in QueryOps =>
        /\ UNCHANGED <<sponsor, frontline, personal_pv, vcs_pv, level>>
        /\ (last'.op = last.op /\ last'.who = last.who) => last' = last ]_vars

\* a query has raised on the qualification gate for a participant with
\* children
C7_Witness ==
  /\ last.op = "calculate_personal_bonus"
  /\ last.out = "ValueError"
  /\ frontline[last.who] # <<>>

\* C8: after any sequence of constructions the objects form a forest: a
\* participant with a sponsor is exactly once in that sponsor's frontline and
\* in no other, one without a sponsor is in no frontline, a frontline is in
\* creation order, and sponsor links lead to a root without a cycle.
C8_WellFormedForest ==
  /\ Len(frontline) = Len(sponsor)
  /\ \A p \in IBOs :
       /\ sponsor[p] \in (IBOs \ {p}) \cup {None}
       /\ \A q \in IBOs :
            Occurrences(frontline[q], p) = (IF sponsor[p] = q THEN 1 ELSE 0)
       /\ \A i, j \in 1..Len(frontline[p]) :
            i < j => frontline[p][i] < frontline[p][j]
       /\ ReachesRoot(p, {})

\* three levels, and a sponsor with two children
C8_Witness ==
  \E p, c, d, g \in IBOs :
    /\ frontline[p] = <<c, d>>
    /\ sponsor[g] = d
    /\ sponsor[p] = None

\* C9: a construction under sponsor S raises the group PV of S and of each
\* ancestor of S by exactly 150, gives the new participant a group PV of
\* 150, leaves group PV and bonus percentage of every other participant
\* unchanged, and lowers no group PV and no bonus percentage.
C9_ConstructionRaisesUplines ==
  [][ \A new \in (1..Len(sponsor')) \ IBOs :
        \A s \in IBOs \cup {None} :
          sponsor'[new] = s =>
            /\ calculate_group_pv(new)' = 150000
            /\ \A p \in IBOs :
                 /\ p \in Up(s) =>
                      calculate_group_pv(p)' = calculate_group_pv(p) + 150000
                 /\ p \notin Up(s) =>
                      /\ calculate_group_pv(p)' = calculate_group_pv(p)
                      /\ calculate_bonus_percentage(p)'
                           = calculate_bonus_percentage(p)
                 /\ calculate_group_pv(p)' >= calculate_group_pv(p)
                 /\ calculate_bonus_percentage(p)'
                      >= calculate_bonus_percentage(p) ]_vars

\* a participant was just constructed under a sponsor that has a sponsor and
\* a sibling subtree, and the root's percentage is above the new one's
C9_Witness ==
  /\ last.op = "__init__"
  /\ sponsor[last.who] # None
  /\ sponsor[sponsor[last.who]] # None
  /\ \E q \in IBOs : q \notin Up(last.who) /\ sponsor[q] # None
  /\ \E r \in Up(last.who) :
       calculate_bonus_percentage(r) > calculate_bonus_percentage(last.who)

\* C10: in a forest built by constructions every personal PV is 150, every
\* group PV a positive multiple of 150, and each participant's bonus
\* percentage is >= that of each entry of its frontline, so the multiplier
\* is pct(upline) - pct(child) without the floor taking effect. For forests
\* larger than MaxIBO: over the multiples of 150 up to MaxMultiple the
\* lookup finds a tier and is non-decreasing.
C10_UplinePercentageNotBelow ==
  /\ \A k \in 1..MaxMultiple :
       /\ FirstTier(k * 150000, 1) > 0
       /\ FirstTier(k * 150000, 1) <= FirstTier((k + 1) * 150000, 1)
  /\ \A p \in IBOs :
       /\ personal_pv[p] = 150000
       /\ calculate_group_pv(p) > 0
       /\ calculate_group_pv(p) % 150000 = 0
       /\ \A i \in 1..Len(frontline[p]) :
            LET c == frontline[p][i]
            IN  /\ calculate_bonus_percentage(p) >= calculate_bonus_percentage(c)
                /\ calculate_multiplier(p, c)
                     = calculate_bonus_percentage(p) - calculate_bonus_percentage(c)

\* an upline two tiers above one child and one tier above another
C10_Witness ==
  \E p \in IBOs :
    /\ \E c \in Children(p) : calculate_multiplier(p, c) = 6
    /\ \E c \in Children(p) : calculate_multiplier(p, c) = 3

====
